---- MODULE Spec2Model ----
(***************************************************************************)
(* A model of galaxymorph.py (class galaxy: construction from a table,     *)
(* galaxy_fit1, galaxy_fit2) and of the two driver scripts analysis.py and *)
(* multiwavelength.py.                                                     *)
(*                                                                         *)
(* Floating-point values are abstracted to a kind ("fin", "nan", "inf")    *)
(* and, for finite values, an exact rational n/d.  The least-squares       *)
(* solver (astropy's LevMarLSQFitter over scipy's leastsq) is an external  *)
(* library: it is modelled by the outcomes its interface can produce at    *)
(* the two call sites (an exception, or a return with a status, an         *)
(* iteration count and fit_info['param_cov']), chosen nondeterministically *)
(* where the data does not decide them.                                    *)
(***************************************************************************)
EXTENDS Integers, Sequences, FiniteSets, TLC

\* ---------------------------------------------------------------- bounds
MaxRows == 8
MaxBad == 1
MaxCalls == 2

\* ------------------------------------------------------ program constants
MaxIter1 == 500000
NParams1 == 3
SmallAngle == 206

\* Mutant of MaxIter2: the cap of galaxy_fit1 copied into galaxy_fit2.
MaxIterCopiedFromFit1 == MaxIter1

MaxIter2 == 5000

\* galaxy_fit2 fits Sersic1_init + Sersic2_init: two parameter triples.
NParams2 == NParams1 + NParams1

\* ------------------------------------------------------------ float values
Fin(n, d) == [k |-> "fin", n |-> n, d |-> d]
NaN == [k |-> "nan", n |-> 0, d |-> 1]
Inf == [k |-> "inf", n |-> 0, d |-> 1]

\* np.isfinite: neither NaN nor infinite.  Zero is finite.
isfinite(x) == x.k = "fin"

IsZero(x) == x.k = "fin" /\ x.n = 0

\* 1/x as numpy computes it: 1/0.0 is inf (a RuntimeWarning, no exception),
\* 1/inf is 0.0, 1/nan is nan.
Recip(x) ==
  CASE x.k = "nan" -> NaN
    [] x.k = "inf" -> Fin(0, 1)
    [] x.k = "fin" /\ x.n = 0 -> Inf
    [] OTHER -> Fin(x.d, x.n)

\* distance * arcsec / 206, with distance given in tenths of a Mpc.
ToRadius(dist10, a) ==
  IF a.k = "fin" THEN Fin(dist10 * a.n, 10 * SmallAngle * a.d) ELSE a

\* 1/array: the reciprocal of every element, as a new array.
RecipAll(s) == [i \in 1..Len(s) |-> Recip(s[i])]

\* ------------------------------------------------------------ input tables
Defects == {"nanR", "infR", "nanSB", "infSB", "nanErr", "infErr", "zeroErr"}

CleanRow(i) == [arcsec |-> Fin(i, 1), SB |-> Fin(100 - i, 1), err |-> Fin(i, 100)]

DefectRow(row, d) ==
  CASE d = "nanR" -> [row EXCEPT !.arcsec = NaN]
    [] d = "infR" -> [row EXCEPT !.arcsec = Inf]
    [] d = "nanSB" -> [row EXCEPT !.SB = NaN]
    [] d = "infSB" -> [row EXCEPT !.SB = Inf]
    [] d = "nanErr" -> [row EXCEPT !.err = NaN]
    [] d = "infErr" -> [row EXCEPT !.err = Inf]
    [] d = "zeroErr" -> [row EXCEPT !.err = Fin(0, 1)]

\* A table of n numeric rows; f maps the defective row numbers to their defect.
MkTable(n, f) ==
  [i \in 1..n |-> IF i \in DOMAIN f THEN DefectRow(CleanRow(i), f[i]) ELSE CleanRow(i)]

BadSets(n) == {b \in SUBSET (1..n) : Cardinality(b) <= MaxBad}

\* The well-formed tables drawn as input: up to MaxBad defective rows at
\* any positions, or every row carrying the same defect.
Tables ==
  UNION {
    UNION { {MkTable(n, f) : f \in [b -> Defects]} : b \in BadSets(n) }
      \cup {MkTable(n, [i \in 1..n |-> d]) : d \in Defects}
    : n \in 1..MaxRows }

\* ------------------------------------------------------------ the drivers
Drivers == {"analysis", "multiwavelength", "session"}

ScriptLen(d) == IF d = "session" THEN 1 ELSE 3

\* Which fit each script calls on its i-th galaxy; a session calls either.
FitKinds(d, i) ==
  CASE d = "analysis" -> IF i = 3 THEN {"fit2"} ELSE {"fit1"}
    [] d = "multiwavelength" -> {"fit2"}
    [] OTHER -> {"fit1", "fit2"}

\* The distance argument, in tenths of a Mpc.
Dist10(d, i) ==
  CASE d = "analysis" -> (IF i = 1 THEN 164 ELSE IF i = 2 THEN 64 ELSE 36)
    [] d = "multiwavelength" -> 98
    [] OTHER -> 100

\* ------------------------------------------------------------------ state
VARIABLES
  driver,      \* which caller runs
  idx,         \* position of the galaxy being processed in the script
  pc,          \* position of the control flow
  obj,         \* the galaxy object being processed
  calls,       \* fit calls made on obj
  kind,        \* the fit method being executed
  filt,        \* galaxy_fit2's locals radius_filtered, SB_filtered, SB_err_filtered
  handed,      \* the arguments of the pending or last solver call
  fitres,      \* what the solver returned: status, fit_info['param_cov'], iterations
  printedBest, \* print(best_Sersic) was executed in this call
  printedErr,  \* print('error =', cov_diag) was executed in this call
  ending,      \* how the current fit call ended
  crash,       \* the unhandled exception that ended the run
  attempted,   \* galaxies whose construction was started
  fitted       \* galaxies whose fit method was entered

vars == <<driver, idx, pc, obj, calls, kind, filt, handed, fitres,
          printedBest, printedErr, ending, crash, attempted, fitted>>

NoObj == [distance |-> 0, arcsec |-> <<>>, SB |-> <<>>, SB_err |-> <<>>, radius |-> <<>>]
NoData == [set |-> FALSE, radius |-> <<>>, SB |-> <<>>, SB_err |-> <<>>]
NoCall == [set |-> FALSE, x |-> <<>>, y |-> <<>>, w |-> <<>>, maxiter |-> 0, nparams |-> 0]
NoRes == [status |-> "none", cov |-> "none", niter |-> 0]

Init ==
  /\ driver \in Drivers
  /\ idx = 1
  /\ pc = "construct"
  /\ obj = NoObj
  /\ calls = 0
  /\ kind = "none"
  /\ filt = NoData
  /\ handed = NoCall
  /\ fitres = NoRes
  /\ printedBest = FALSE
  /\ printedErr = FALSE
  /\ ending = "idle"
  /\ crash = "none"
  /\ attempted = {}
  /\ fitted = {}

\* ------------------------------------------------------ galaxy.__init__
Column(tbl, c) == [i \in 1..Len(tbl) |-> tbl[i][c]]

\* np.loadtxt(path, usecols=[0, 1, 2], unpack=True) on a numeric table, then
\* self.radius = self.distance * self.arcsec / 206.
NewGalaxy(dist10, tbl) ==
  LET a == Column(tbl, "arcsec") IN
  [distance |-> dist10,
   arcsec |-> a,
   SB |-> Column(tbl, "SB"),
   SB_err |-> Column(tbl, "err"),
   radius |-> [i \in 1..Len(a) |-> ToRadius(dist10, a[i])]]

\* The table is numeric: the object is built.
ConstructOk ==
  /\ pc = "construct"
  /\ \E tbl \in Tables : obj' = NewGalaxy(Dist10(driver, idx), tbl)
  /\ attempted' = attempted \cup {idx}
  /\ calls' = 0
  /\ pc' = "info"
  /\ UNCHANGED <<driver, idx, kind, filt, handed, fitres, printedBest, printedErr,
                 ending, crash, fitted>>

\* A non-numeric or missing column: np.loadtxt raises inside __init__.  No
\* caller catches it: the run ends with the traceback.
ConstructMalformed ==
  /\ pc = "construct"
  /\ attempted' = attempted \cup {idx}
  /\ crash' = "loadtxt"
  /\ pc' = "crashed"
  /\ UNCHANGED <<driver, idx, obj, calls, kind, filt, handed, fitres, printedBest,
                 printedErr, ending, fitted>>

\* galaxy_info prints the name and the distance.
GalaxyInfo ==
  /\ pc = "info"
  /\ pc' = "call"
  /\ UNCHANGED <<driver, idx, obj, calls, kind, filt, handed, fitres, printedBest,
                 printedErr, ending, crash, attempted, fitted>>

\* ------------------------------------------------------------ galaxy_fit1
\* fit(Sersic_init, self.radius, self.SB, weights=1/self.SB_err, maxiter=500000)
Fit1Args(o) ==
  [set |-> TRUE, x |-> o.radius, y |-> o.SB, w |-> RecipAll(o.SB_err),
   maxiter |-> MaxIter1, nparams |-> NParams1]

Fit1Call ==
  /\ pc = "call"
  /\ "fit1" \in FitKinds(driver, idx)
  /\ kind' = "fit1"
  /\ calls' = calls + 1
  /\ fitted' = fitted \cup {idx}
  /\ filt' = NoData
  /\ handed' = Fit1Args(obj)
  /\ fitres' = NoRes
  /\ printedBest' = FALSE
  /\ printedErr' = FALSE
  /\ ending' = "running"
  /\ pc' = "solving"
  /\ UNCHANGED <<driver, idx, obj, crash, attempted>>

\* ------------------------------------------------------------ galaxy_fit2
\* Mutant of Mask: the finiteness of SB_err is not tested.
MaskWithoutErr(o) ==
  [i \in 1..Len(o.radius) |-> isfinite(o.radius[i]) /\ isfinite(o.SB[i])]

\* mask = np.isfinite(self.radius) & np.isfinite(self.SB) & np.isfinite(self.SB_err)
Mask(o) ==
  [i \in 1..Len(o.radius) |->
     isfinite(o.radius[i]) /\ isfinite(o.SB[i]) /\ isfinite(o.SB_err[i])]

\* a[mask]: the elements of a where mask is True, in order, as a new array.
RECURSIVE BoolIndex(_, _)
BoolIndex(a, m) ==
  IF Len(a) = 0 THEN <<>>
  ELSE IF Head(m) THEN <<Head(a)>> \o BoolIndex(Tail(a), Tail(m))
  ELSE BoolIndex(Tail(a), Tail(m))

Filtered(o) ==
  LET m == Mask(o) IN
  [set |-> TRUE,
   radius |-> BoolIndex(o.radius, m),
   SB |-> BoolIndex(o.SB, m),
   SB_err |-> BoolIndex(o.SB_err, m)]

\* Mutant of SelfAfterMask: the filtered arrays are assigned to the attributes.
StoreFiltered(o, f) ==
  [o EXCEPT !.radius = f.radius, !.SB = f.SB, !.SB_err = f.SB_err]

\* The object after the masking step: the filtered arrays are bound to locals,
\* no attribute of self is assigned.
SelfAfterMask(o, f) == o

Fit2Mask ==
  /\ pc = "call"
  /\ "fit2" \in FitKinds(driver, idx)
  /\ kind' = "fit2"
  /\ calls' = calls + 1
  /\ fitted' = fitted \cup {idx}
  /\ filt' = Filtered(obj)
  /\ obj' = SelfAfterMask(obj, Filtered(obj))
  /\ handed' = NoCall
  /\ fitres' = NoRes
  /\ printedBest' = FALSE
  /\ printedErr' = FALSE
  /\ ending' = "running"
  /\ pc' = "masked"
  /\ UNCHANGED <<driver, idx, crash, attempted>>

\* fit(Sersic_total_init, radius_filtered, SB_filtered,
\*     weights=1/SB_err_filtered, maxiter=5000)
Fit2Args(f) ==
  [set |-> TRUE, x |-> f.radius, y |-> f.SB, w |-> RecipAll(f.SB_err),
   maxiter |-> MaxIter2, nparams |-> NParams2]

Fit2Call ==
  /\ pc = "masked"
  /\ handed' = Fit2Args(filt)
  /\ pc' = "solving"
  /\ UNCHANGED <<driver, idx, obj, calls, kind, filt, fitres, printedBest, printedErr,
                 ending, crash, attempted, fitted>>

\* ------------------------------------------------------------- the solver
\* The weighted residual w * (y - model(x)) of one point is finite exactly
\* when the weight and the measurement are finite and the radius is not NaN
\* (a Sersic profile at an infinite radius is 0).
FiniteResidual(x, y, w) == w.k = "fin" /\ y.k = "fin" /\ x.k # "nan"

NonFiniteObjective(h) ==
  \E i \in 1..Len(h.y) : ~FiniteResidual(h.x[i], h.y[i], h.w[i])

\* leastsq refuses fewer residuals than parameters (TypeError), and the
\* fitter's objective function raises NonFiniteValueError on a non-finite
\* weighted residual (its filter_non_finite option is left at False).
SolverCanRaise(h) == Len(h.y) < h.nparams \/ NonFiniteObjective(h)

\* fit_info['param_cov']: None when the solver returns no cov_x (singular
\* Jacobian) or when there are not more points than parameters.
CovOutcomes(h) ==
  IF Len(h.y) > h.nparams THEN {"none", "matrix"} ELSE {"none"}

\* The iterations used: the cap when it was exhausted, fewer otherwise.
IterOutcomes(s, cap) == IF s = "exhausted" THEN {cap} ELSE {1, cap - 1}

\* What a call that does not raise can return: ierr says whether the
\* tolerance was met or maxiter was used up (a warning, no exception).
SolverReturns(h) ==
  IF SolverCanRaise(h) THEN {}
  ELSE {r \in [status : {"converged", "exhausted"},
               cov : CovOutcomes(h),
               niter : {1, h.maxiter - 1, h.maxiter}] :
          r.niter \in IterOutcomes(r.status, h.maxiter)}

\* Mutant of OnSolverRaise: the solver call of galaxy_fit2 is not in a try block.
OnSolverRaiseNoHandler(k) == "unhandled"

\* What the fit method does with an exception of the solver: galaxy_fit2
\* catches it, prints it and returns; galaxy_fit1 has no handler.
OnSolverRaise(k) == IF k = "fit2" THEN "caught" ELSE "unhandled"

SolverRaise ==
  /\ pc = "solving"
  /\ SolverCanRaise(handed)
  /\ ending' = OnSolverRaise(kind)
  /\ IF OnSolverRaise(kind) = "caught"
       THEN pc' = "return" /\ crash' = crash
       ELSE pc' = "crashed" /\ crash' = "solver"
  /\ UNCHANGED <<driver, idx, obj, calls, kind, filt, handed, fitres, printedBest,
                 printedErr, attempted, fitted>>

SolverReturn ==
  /\ pc = "solving"
  /\ \E r \in SolverReturns(handed) : fitres' = r
  /\ pc' = "printBest"
  /\ UNCHANGED <<driver, idx, obj, calls, kind, filt, handed, printedBest,
                 printedErr, ending, crash, attempted, fitted>>

\* ------------------------------------------------- reporting, both methods
\* print(best_Sersic): executed whenever the solver returned.
PrintBest ==
  /\ pc = "printBest"
  /\ printedBest' = TRUE
  /\ pc' = "printErr"
  /\ UNCHANGED <<driver, idx, obj, calls, kind, filt, handed, fitres, printedErr,
                 ending, crash, attempted, fitted>>

\* np.diag(None) raises ValueError; the statement is outside any try block.
DiagRaises(cov) == cov = "none"

\* cov_diag = np.sqrt(np.diag(fit.fit_info['param_cov'])); print('error =', cov_diag)
PrintErr ==
  /\ pc = "printErr"
  /\ IF DiagRaises(fitres.cov)
       THEN /\ pc' = "crashed"
            /\ crash' = "diag"
            /\ ending' = "unhandled"
            /\ printedErr' = printedErr
       ELSE /\ pc' = "plot"
            /\ printedErr' = TRUE
            /\ UNCHANGED <<crash, ending>>
  /\ UNCHANGED <<driver, idx, obj, calls, kind, filt, handed, fitres, printedBest,
                 attempted, fitted>>

\* The two panels are drawn and the method returns.
Plot ==
  /\ pc = "plot"
  /\ ending' = "completed"
  /\ pc' = "return"
  /\ UNCHANGED <<driver, idx, obj, calls, kind, filt, handed, fitres, printedBest,
                 printedErr, crash, attempted, fitted>>

\* ------------------------------------------------------------- the callers
\* The script goes on to its next galaxy.  The locals of the returned call
\* are gone, and the script never uses the finished object again: the state
\* keeps neither.
NextGalaxy ==
  /\ pc = "return"
  /\ idx < ScriptLen(driver)
  /\ idx' = idx + 1
  /\ pc' = "construct"
  /\ obj' = NoObj
  /\ calls' = 0
  /\ kind' = "none"
  /\ filt' = NoData
  /\ handed' = NoCall
  /\ fitres' = NoRes
  /\ printedBest' = FALSE
  /\ printedErr' = FALSE
  /\ ending' = "idle"
  /\ UNCHANGED <<driver, crash, attempted, fitted>>

\* A session calls a fit method on the same object again.
CallAgain ==
  /\ pc = "return"
  /\ driver = "session"
  /\ calls < MaxCalls
  /\ pc' = "call"
  /\ UNCHANGED <<driver, idx, obj, calls, kind, filt, handed, fitres, printedBest,
                 printedErr, ending, crash, attempted, fitted>>

\* The last statement, plt.show(), and the end of the run.
Finish ==
  /\ pc = "return"
  /\ idx = ScriptLen(driver)
  /\ pc' = "finished"
  /\ UNCHANGED <<driver, idx, obj, calls, kind, filt, handed, fitres, printedBest,
                 printedErr, ending, crash, attempted, fitted>>

Next ==
  \/ ConstructOk
  \/ ConstructMalformed
  \/ GalaxyInfo
  \/ Fit1Call
  \/ Fit2Mask
  \/ Fit2Call
  \/ SolverRaise
  \/ SolverReturn
  \/ PrintBest
  \/ PrintErr
  \/ Plot
  \/ NextGalaxy
  \/ CallAgain
  \/ Finish

Spec == Init /\ [][Next]_vars

\* ------------------------------------------------------------------ claims
CallEnded == ending \in {"completed", "caught", "unhandled"}

RunOver == pc \in {"return", "crashed", "finished"}

\* The indices of the object's profile where all three values are finite.
FiniteIdx(o) ==
  {i \in 1..Len(o.radius) :
     o.radius[i].k = "fin" /\ o.SB[i].k = "fin" /\ o.SB_err[i].k = "fin"}

\* The j-th smallest element of a set of indices.
Nth(K, j) == CHOOSE i \in K : Cardinality({k \in K : k <= i}) = j

DegenerateErr(o) ==
  \E i \in 1..Len(o.SB_err) : o.SB_err[i].k # "fin" \/ o.SB_err[i].n = 0

\* C1 (as claimed): once the solver has returned without a covariance matrix
\* (param_cov is None), the best-fit parameters are not reported and the run
\* does not end in the exception raised while deriving the standard errors.
C1_NoCovarianceIsFitFailure ==
  (fitres.status # "none" /\ fitres.cov = "none")
    => (~printedBest /\ crash # "diag")

\* C2 (as claimed): in galaxy_fit2 the masking drops every zero-error point,
\* so the filtered errors hold no zero and no weight handed to the solver is
\* the reciprocal of zero.
C2_ZeroErrorIsDropped ==
  (kind = "fit2" /\ filt.set)
    => /\ \A j \in 1..Len(filt.SB_err) : ~IsZero(filt.SB_err[j])
       /\ \A j \in 1..Len(handed.w) : handed.w[j].k # "inf"

\* C3: in galaxy_fit2 the solver is called only after masking, and what it is
\* handed is exactly the measurements at the indices where radius, SB and
\* SB_err are all finite, in the original order: the three sequences have
\* the same length and stay index-aligned (the weights are the reciprocals
\* of the retained errors).
C3_SolverGetsFinitePoints ==
  /\ (kind = "fit2" /\ ~filt.set) => ~handed.set
  /\ (kind = "fit2" /\ handed.set) =>
       LET K == FiniteIdx(obj)
           n == Cardinality(K)
       IN /\ filt.set
          /\ Len(handed.x) = n /\ Len(handed.y) = n /\ Len(handed.w) = n
          /\ Len(filt.SB_err) = n
          /\ \A j \in 1..n :
               /\ handed.x[j] = obj.radius[Nth(K, j)]
               /\ handed.y[j] = obj.SB[Nth(K, j)]
               /\ filt.SB_err[j] = obj.SB_err[Nth(K, j)]
               /\ handed.w[j] = Recip(obj.SB_err[Nth(K, j)])

\* C3 witness: a two-component fit whose solver call got a profile from which
\* masking removed an inner point and kept points on both sides of it.
C3_Witness ==
  /\ kind = "fit2"
  /\ handed.set
  /\ \E i \in 2..(Len(obj.radius) - 1) :
       /\ i \notin FiniteIdx(obj)
       /\ (i - 1) \in FiniteIdx(obj)
       /\ (i + 1) \in FiniteIdx(obj)

\* C4: when masking removes every point, galaxy_fit2 ends in its error branch
\* (the solver's exception is caught and printed, the method returns): no
\* unhandled exception, no parameter values and no uncertainties reported.
C4_AllMaskedEndsInFailure ==
  (kind = "fit2" /\ filt.set /\ Len(filt.radius) = 0) =>
    /\ ~printedBest
    /\ ~printedErr
    /\ crash = "none"
    /\ fitres.status = "none"
    /\ pc \in {"masked", "solving", "return", "call", "finished"}
    /\ (pc \in {"return", "call", "finished"} => ending = "caught")

\* C4 witness: a non-empty profile whose points were all masked, and the
\* two-component fit has ended in its error branch.
C4_Witness ==
  /\ kind = "fit2"
  /\ filt.set
  /\ Len(obj.radius) > 0
  /\ Len(filt.radius) = 0
  /\ ending = "caught"
  /\ pc = "return"

\* C5 (as claimed): when a malformed table ended the processing of one
\* galaxy of a batch, every later galaxy of the batch is still constructed.
C5_BatchSurvivesMalformedTable ==
  (pc = "crashed" /\ crash = "loadtxt")
    => \A j \in (idx + 1)..ScriptLen(driver) : j \in attempted

\* C6: no step of galaxy_fit1 or galaxy_fit2, successful or failing, changes
\* the radius, SB or SB_err of the galaxy object; the masked data lives in
\* separate locals.
C6_ProfileUnchangedByFits ==
  [][(obj # NoObj /\ obj' # NoObj)
       => (obj'.radius = obj.radius /\ obj'.SB = obj.SB /\ obj'.SB_err = obj.SB_err
           /\ obj'.arcsec = obj.arcsec)]_vars

\* C6 witness: the second fit call on one object has completed, it was a
\* two-component fit, and its masked copy is shorter than the object's profile.
C6_Witness ==
  /\ calls = 2
  /\ kind = "fit2"
  /\ ending = "completed"
  /\ filt.set
  /\ Len(filt.radius) < Len(obj.radius)

\* The state a fit call ended in.
FitState ==
  IF ending \in {"caught", "unhandled"} THEN "failed"
  ELSE IF ending = "completed" THEN fitres.status
  ELSE "running"

C7_Caps ==
  /\ handed.set => handed.maxiter = (IF kind = "fit1" THEN 500000 ELSE 5000)
  /\ fitres.status # "none" =>
       /\ fitres.niter <= handed.maxiter
       /\ fitres.niter <= (IF kind = "fit1" THEN 500000 ELSE 5000)
  /\ CallEnded => FitState \in {"converged", "exhausted", "failed"}

\* The statements a running fit call has left before it ends, at most.
StepsLeft ==
  CASE pc = "masked" -> 5
    [] pc = "solving" -> 4
    [] pc = "printBest" -> 3
    [] pc = "printErr" -> 2
    [] pc = "plot" -> 1
    [] OTHER -> 0

\* C7: every fit call that has started terminates (while it runs a next step
\* is always possible, and every step leaves fewer steps to its end), it ends
\* in exactly one of the states converged, exhausted or failed, and the
\* solver's iteration count never exceeds the cap it was given: 500000 in
\* galaxy_fit1, 5000 in galaxy_fit2.
C7_FitTerminatesWithinCap ==
  /\ []C7_Caps
  /\ [](ending = "running" => (StepsLeft > 0 /\ ENABLED Next))
  /\ [][ending = "running" => StepsLeft' < StepsLeft]_vars
  /\ [][(ending = "running" /\ StepsLeft' = 0) => CallEnded']_vars

\* C7 witness: a two-component fit that used up its 5000 iterations and
\* completed.
C7_Witness ==
  /\ kind = "fit2"
  /\ fitres.status = "exhausted"
  /\ fitres.niter = 5000
  /\ ending = "completed"

\* C8 (as claimed): a fit call whose solver reached the iteration cap ends
\* normally, with the best estimate and the uncertainties both reported,
\* whatever covariance the solver produced.
C8_ExhaustedIsReported ==
  (fitres.status = "exhausted" /\ RunOver)
    => (ending = "completed" /\ printedBest /\ printedErr)

\* C9 (as claimed): in galaxy_fit1 a zero or non-finite SB_err value is
\* fatal: neither best-fit parameters nor uncertainties are reported.
C9_DegenerateErrorIsFatal ==
  (kind = "fit1" /\ DegenerateErr(obj))
    => (~printedBest /\ ~printedErr /\ ending # "completed")

====
